---- MODULE Spec2Model ----
(***************************************************************************)
(* VoiceAgentBridge: the session registry (SessionManager) together with   *)
(* the per-call adapter (SIPAdapter) event handlers that mutate the        *)
(* BridgeSession object the registry handed out.                           *)
(*                                                                         *)
(* BridgeSession objects are JavaScript objects shared by reference        *)
(* between the registry's activeSessions Map, its sessionHistory array and *)
(* the adapter that was constructed with the object.  The model keeps them *)
(* in a heap; a handle is the index of the object in the heap.             *)
(*                                                                         *)
(* The operations fall into groups by the fields they write: the lifecycle *)
(* (activeSessions, sessionHistory, startTime, endTime), the collected     *)
(* data (collectedData, stats.dataPointsCollected) and the handoffs        *)
(* (currentAgent, stats.agentHandoffs).  Spec is the lifecycle on an empty *)
(* registry and SpecHistory the lifecycle on a registry filled up to the   *)
(* history limit; SpecData and SpecHandoff add to createSession and        *)
(* endSession every operation that writes the fields of their group;       *)
(* SpecRecord has the recordAgentHandoff calls alone and SpecLookup the    *)
(* calls that address an id which is not active.                           *)
(*                                                                         *)
(* The connector (SI2Connector) of one call is modelled with the WebSocket *)
(* objects it creates; what the network does to a WebSocket (it opens, it  *)
(* fails, it closes, a frame arrives) is the environment.  SpecReconnect   *)
(* is the connection and its retries, SpecSend adds the sends, and         *)
(* SpecDispatch is one transport with the frames it receives and the       *)
(* listeners of the adapter that they reach.                               *)
(*                                                                         *)
(* A call as a whole joins the two: SpecFatal is the call whose backend    *)
(* goes away, under the fairness of the event loop; SpecForward adds the   *)
(* audio the adapter forwards; SpecCall is the setup of the call, its      *)
(* connection and the expiry sweep; SpecEnded is the frames that arrive    *)
(* while the sweep may end the session.  SpecAudio is the AudioPipeline on *)
(* its own, applied to every kind of value it can be handed.               *)
(*                                                                         *)
(* SpecChurn is the expiry sweep among the calls of the adapters,          *)
(* SpecStats the global statistics read at any moment, and SpecShared the  *)
(* four methods that write to a session, called for several sessions.      *)
(* SpecAwait is the connection as its owner awaits it, SpecOwner a         *)
(* connector that is disconnected and connected again, and SpecStream the  *)
(* connector with the consumer of its receiveAudio() generator.            *)
(***************************************************************************)
EXTENDS Integers, Sequences, FiniteSets, TLC

(***************************************************************************)
(* Bounds of the model.                                                    *)
(***************************************************************************)
MaxSessions == 2      \* createSession calls made during a run
MaxId == 2            \* session ids are 1..MaxId
MaxHours == 2         \* the clock stops advancing after MaxHours hours
MaxData == 2          \* data points addressed to one session
MaxHandoffs == 2      \* recordAgentHandoff calls and handoff events per session
MaxAgeHours == 1      \* cleanupExpiredSessions is called with 0..MaxAgeHours
MaxSockets == 7       \* WebSocket objects one connector creates during a run
MaxSends == 2         \* sendAudio and sendText calls made on the connector
MaxFrames == 3        \* frames the backend sends to the connector
MaxErrors == 1        \* 'error' events the transports raise
MaxLen == 3           \* bytes in a buffer of audio
MaxConnects == 2      \* connect() calls a connector's owner makes

Ids == 1..MaxId
AgeHours == 0..MaxAgeHours

(***************************************************************************)
(* Program constants.                                                      *)
(***************************************************************************)
HistoryLimit == 100                   \* session-manager.ts:161-162
InitialAgent == "authentication"      \* session-manager.ts:62
HourMs == 60 * 60 * 1000              \* session-manager.ts:221

Undefined == -1                       \* JavaScript undefined (no handle, no Date)

maxReconnectAttempts == 5             \* openai-realtime-connector.ts:552
reconnectDelay == 1000                \* openai-realtime-connector.ts:553

Agents == {"spotlight", "carDealer"}     \* the agents a handoff names
DataPoints == {"full_name", "car_model"}

\* The Partial<SessionStats> values callers pass to updateSessionStats.
StatUpdates ==
  { [f \in {"dataPointsCollected"} |-> 0],
    [f \in {"agentHandoffs"} |-> 0] }

VARIABLES
  activeSessions,   \* Map<string, BridgeSession>: insertion-ordered entries
  sessionHistory,   \* BridgeSession[]: handles of ended sessions
  heap,             \* the BridgeSession objects allocated so far
  now,              \* Date.now() in milliseconds
  adapter,          \* per session object: state of the SIPAdapter bound to it
  lastCall,         \* the operation performed by the last step and its result
  received,         \* history: per session object, the data points addressed
                    \* to it (addDataPoint on its id while live, its events)
  handoffs,         \* history: per session object, the `to` of each
                    \* recordAgentHandoff call made on its id while live
  ended,            \* history: all sessions ended so far, in end order
  conn,             \* the SI2Connector: ws, isConnected, reconnectAttempts
  sockets,          \* the WebSocket objects the connector created, in order
  timers,           \* pending setTimeout callbacks of attemptReconnect (delays)
  emitted,          \* the events the connector emitted during the last step
  connHist,         \* history of the connector's calls and events
  audio,            \* a chunk of audio on its way through the AudioPipeline
  stream            \* the iteration of the connector's receiveAudio()

connVars == <<conn, sockets, timers, emitted, connHist>>

vars == <<activeSessions, sessionHistory, heap, now, adapter, lastCall,
          received, handoffs, ended, conn, sockets, timers, emitted, connHist,
          audio, stream>>

(***************************************************************************)
(* JavaScript Map, as an insertion-ordered sequence of entries.            *)
(***************************************************************************)
MapHas(m, k) == \E i \in 1..Len(m) : m[i].key = k

MapIndex(m, k) == CHOOSE i \in 1..Len(m) : m[i].key = k

MapGet(m, k) == IF MapHas(m, k) THEN m[MapIndex(m, k)].obj ELSE Undefined

MapSet(m, k, v) ==
  IF MapHas(m, k)
  THEN [m EXCEPT ![MapIndex(m, k)].obj = v]
  ELSE Append(m, [key |-> k, obj |-> v])

MapDelete(m, k) == SelectSeq(m, LAMBDA e : e.key # k)

MapValues(m) == [i \in 1..Len(m) |-> m[i].obj]

\* Array.prototype.slice(-n): the last n elements (all of them if fewer).
SliceLast(s, n) ==
  IF Len(s) <= n THEN s ELSE SubSeq(s, Len(s) - n + 1, Len(s))

\* Object.assign(target, updates)
ObjectAssign(target, updates) ==
  [f \in DOMAIN target |-> IF f \in DOMAIN updates THEN updates[f] ELSE target[f]]

(***************************************************************************)
(* SessionManager.  The registry is the record R of its two fields and the *)
(* heap of session objects they refer to; each method is an operator from  *)
(* R to the registry after the call.                                       *)
(***************************************************************************)
Registry == [activeSessions |-> activeSessions,
             sessionHistory |-> sessionHistory,
             heap |-> heap]

NewStats == [audioChunksProcessed |-> 0, messagesExchanged |-> 0,
             agentHandoffs |-> 0, dataPointsCollected |-> 0,
             errors |-> 0, avgLatency |-> 0]

\* The object literal built by createSession (roomName, participantId,
\* protocol and config are copied from the descriptor and never read again).
NewSession(sessionId, t) ==
  [sessionId |-> sessionId,
   startTime |-> t,
   endTime |-> Undefined,
   currentAgent |-> InitialAgent,
   collectedData |-> <<>>,
   stats |-> NewStats]

createSession(R, sessionId, t) ==
  LET h == Len(R.heap) + 1 IN
  [R EXCEPT !.heap = Append(R.heap, NewSession(sessionId, t)),
            !.activeSessions = MapSet(R.activeSessions, sessionId, h)]

getSession(R, sessionId) == MapGet(R.activeSessions, sessionId)

\* updateSessionStats that falls back on the ended sessions of the id.
updateSessionStatsEnded(R, sessionId, updates) ==
  LET session == MapGet(R.activeSessions, sessionId)
      past == {h \in 1..Len(R.heap) : R.heap[h].sessionId = sessionId}
  IN IF session = Undefined
     THEN [R EXCEPT !.heap = [h \in 1..Len(R.heap) |->
             IF h \in past THEN [R.heap[h] EXCEPT !.stats = ObjectAssign(@, updates)]
             ELSE R.heap[h]]]
     ELSE [R EXCEPT !.heap[session].stats = ObjectAssign(@, updates)]

updateSessionStats(R, sessionId, updates) ==
  LET session == MapGet(R.activeSessions, sessionId) IN
  IF session = Undefined THEN R
  ELSE [R EXCEPT !.heap[session].stats = ObjectAssign(@, updates)]

\* addDataPoint that keeps one dataPointsCollected counter for all the active
\* sessions.
addDataPointShared(R, sessionId, dataPoint) ==
  LET session == MapGet(R.activeSessions, sessionId) IN
  IF session = Undefined THEN R
  ELSE [R EXCEPT !.heap = [h \in 1..Len(R.heap) |->
          IF h = session
          THEN [R.heap[h] EXCEPT !.collectedData = Append(@, dataPoint),
                                 !.stats.dataPointsCollected = @ + 1]
          ELSE IF \E i \in 1..Len(R.activeSessions) : R.activeSessions[i].obj = h
          THEN [R.heap[h] EXCEPT !.stats.dataPointsCollected = @ + 1]
          ELSE R.heap[h]]]

\* addDataPoint with unshift in place of push.
addDataPointUnshift(R, sessionId, dataPoint) ==
  LET session == MapGet(R.activeSessions, sessionId) IN
  IF session = Undefined THEN R
  ELSE [R EXCEPT !.heap[session].collectedData = <<dataPoint>> \o @,
                 !.heap[session].stats.dataPointsCollected = @ + 1]

addDataPoint(R, sessionId, dataPoint) ==
  LET session == MapGet(R.activeSessions, sessionId) IN
  IF session = Undefined THEN R
  ELSE [R EXCEPT !.heap[session].collectedData = Append(@, dataPoint),
                 !.heap[session].stats.dataPointsCollected = @ + 1]

\* recordAgentHandoff that skips a handoff to the agent already current.
recordAgentHandoffDistinct(R, sessionId, fromAgent, toAgent) ==
  LET session == MapGet(R.activeSessions, sessionId) IN
  IF session = Undefined \/ R.heap[session].currentAgent = toAgent THEN R
  ELSE [R EXCEPT !.heap[session].currentAgent = toAgent,
                 !.heap[session].stats.agentHandoffs = @ + 1]

recordAgentHandoff(R, sessionId, fromAgent, toAgent) ==
  LET session == MapGet(R.activeSessions, sessionId) IN
  IF session = Undefined THEN R
  ELSE [R EXCEPT !.heap[session].currentAgent = toAgent,
                 !.heap[session].stats.agentHandoffs = @ + 1]

\* trimHistory with slice(0, 100) in place of slice(-100).
trimHistoryOldest(history) ==
  IF Len(history) > HistoryLimit THEN SubSeq(history, 1, HistoryLimit) ELSE history

\* The history after one more session was pushed onto it.
trimHistory(history) ==
  IF Len(history) > HistoryLimit THEN SliceLast(history, HistoryLimit) ELSE history

\* endSession that ends the latest history entry of an id that is not active.
endSessionAgain(R, sessionId, t) ==
  LET session == MapGet(R.activeSessions, sessionId)
      past == {i \in 1..Len(R.sessionHistory) :
                 R.heap[R.sessionHistory[i]].sessionId = sessionId}
      last == R.sessionHistory[CHOOSE i \in past : \A j \in past : j <= i]
  IN IF session = Undefined
     THEN IF past = {} THEN R
          ELSE [R EXCEPT !.heap[last].endTime = t,
                         !.sessionHistory = trimHistory(Append(@, last))]
     ELSE [R EXCEPT !.heap[session].endTime = t,
                    !.sessionHistory = trimHistory(Append(@, session)),
                    !.activeSessions = MapDelete(@, sessionId)]

\* endSession that forgets to delete the entry from activeSessions.
endSessionKept(R, sessionId, t) ==
  LET session == MapGet(R.activeSessions, sessionId) IN
  IF session = Undefined THEN R
  ELSE [R EXCEPT !.heap[session].endTime = t,
                 !.sessionHistory = trimHistory(Append(@, session))]

endSession(R, sessionId, t) ==
  LET session == MapGet(R.activeSessions, sessionId) IN
  IF session = Undefined THEN R
  ELSE [R EXCEPT !.heap[session].endTime = t,
                 !.sessionHistory = trimHistory(Append(@, session)),
                 !.activeSessions = MapDelete(@, sessionId)]

endSessionResult(R, sessionId) == MapGet(R.activeSessions, sessionId)

getActiveSessions(R) == MapValues(R.activeSessions)

getSessionHistory(R) == R.sessionHistory


\* cleanupVisit with <= in place of < in the comparison with the cutoff.
cleanupVisitInclusive(acc, e, cutoffTime, t) ==
  IF /\ MapHas(acc.reg.activeSessions, e.key)
     /\ acc.reg.heap[e.obj].startTime <= cutoffTime
  THEN [reg |-> endSession(acc.reg, e.key, t),
        cleanedCount |-> acc.cleanedCount + 1]
  ELSE acc

\* array.reduce((sum, s) => sum + f(s), 0) over entries lo..hi of a history,
\* f given by its value on each session object.  The range is halved to keep
\* the evaluation shallow; the order of a sum of integers does not matter.
RECURSIVE reduceSum(_, _, _, _)
reduceSum(history, f, lo, hi) ==
  IF lo > hi THEN 0
  ELSE IF lo = hi THEN f[history[lo]]
  ELSE LET mid == (lo + hi) \div 2 IN
       reduceSum(history, f, lo, mid) + reduceSum(history, f, mid + 1, hi)

\* The quotient n / d of two numbers, kept exact.
Ratio(n, d) == [num |-> n, den |-> d]

\* getGlobalStats that counts the active sessions among the total.
getGlobalStatsAll(R) ==
  LET n == Len(R.sessionHistory)
      totalSessions == n + Len(R.activeSessions)
      duration == [h \in 1..Len(R.heap) |->
                     IF R.heap[h].endTime # Undefined
                     THEN R.heap[h].endTime - R.heap[h].startTime ELSE 0]
      totalDuration == reduceSum(R.sessionHistory, duration, 1, n)
  IN [activeSessions |-> Len(R.activeSessions),
      totalSessions |-> totalSessions,
      averageSessionDuration |->
        IF totalSessions > 0 THEN Ratio(totalDuration, totalSessions * 1000)
        ELSE Ratio(0, 1),
      totalDataPointsCollected |->
        reduceSum(R.sessionHistory,
                  [h \in 1..Len(R.heap) |-> R.heap[h].stats.dataPointsCollected], 1, n),
      totalAgentHandoffs |->
        reduceSum(R.sessionHistory,
                  [h \in 1..Len(R.heap) |-> R.heap[h].stats.agentHandoffs], 1, n)]

\* getGlobalStats.  The filter of line 198 keeps the entries with an endTime;
\* the average is totalDuration / totalSessions / 1000, in seconds.
getGlobalStats(R) ==
  LET totalSessions == Len(R.sessionHistory)
      duration == [h \in 1..Len(R.heap) |->
                     IF R.heap[h].endTime # Undefined
                     THEN R.heap[h].endTime - R.heap[h].startTime ELSE 0]
      totalDuration == reduceSum(R.sessionHistory, duration, 1, totalSessions)
  IN [activeSessions |-> Len(R.activeSessions),
      totalSessions |-> totalSessions,
      averageSessionDuration |->
        IF totalSessions > 0 THEN Ratio(totalDuration, totalSessions * 1000)
        ELSE Ratio(0, 1),
      totalDataPointsCollected |->
        reduceSum(R.sessionHistory,
                  [h \in 1..Len(R.heap) |-> R.heap[h].stats.dataPointsCollected],
                  1, totalSessions),
      totalAgentHandoffs |->
        reduceSum(R.sessionHistory,
                  [h \in 1..Len(R.heap) |-> R.heap[h].stats.agentHandoffs],
                  1, totalSessions)]

\* The iteration that counts every entry it visits, ended or not.
cleanupVisitMiscount(acc, e, cutoffTime, t) ==
  IF /\ MapHas(acc.reg.activeSessions, e.key)
     /\ acc.reg.heap[e.obj].startTime < cutoffTime
  THEN [reg |-> endSession(acc.reg, e.key, t),
        cleanedCount |-> acc.cleanedCount + 1]
  ELSE [acc EXCEPT !.cleanedCount = @ + 1]

\* One iteration of the loop of cleanupExpiredSessions, on entry e of
\* activeSessions.entries().  The Map iterator is live: an entry deleted
\* before it is reached is skipped.
cleanupVisit(acc, e, cutoffTime, t) ==
  IF /\ MapHas(acc.reg.activeSessions, e.key)
     /\ acc.reg.heap[e.obj].startTime < cutoffTime
  THEN [reg |-> endSession(acc.reg, e.key, t),
        cleanedCount |-> acc.cleanedCount + 1]
  ELSE acc

\* The loop over entries[lo..hi], in order.  The range is halved instead of
\* peeled from the front only to keep the evaluation shallow.
RECURSIVE cleanupLoop(_, _, _, _, _, _)
cleanupLoop(acc, entries, lo, hi, cutoffTime, t) ==
  IF acc.cleanedCount < 0 \/ lo > hi THEN acc
  ELSE IF lo = hi THEN cleanupVisit(acc, entries[lo], cutoffTime, t)
  ELSE LET mid == (lo + hi) \div 2 IN
       cleanupLoop(cleanupLoop(acc, entries, lo, mid, cutoffTime, t),
                   entries, mid + 1, hi, cutoffTime, t)

\* Returns the registry after the sweep and the count the method returns.
cleanupExpiredSessions(R, maxAgeHours, t) ==
  LET cutoffTime == t - maxAgeHours * 60 * 60 * 1000 IN
  cleanupLoop([reg |-> R, cleanedCount |-> 0], R.activeSessions,
              1, Len(R.activeSessions), cutoffTime, t)

(***************************************************************************)
(* SIPAdapter: the handlers it registers on its connector.  They work on   *)
(* this.session, the object createSession returned, not on the registry.   *)
(***************************************************************************)
NewAdapter == [handlers |-> FALSE, isConnected |-> FALSE, si2Connected |-> FALSE]

onAgentHandoff(session, handoffTo) == [session EXCEPT !.currentAgent = handoffTo]

\* The data_collection listener with unshift in place of push.
onDataCollectionUnshift(session, dataPoint) ==
  [session EXCEPT !.collectedData = <<dataPoint>> \o @]

onDataCollection(session, dataPoint) ==
  [session EXCEPT !.collectedData = Append(@, dataPoint)]

\* SIPAdapter.disconnect: disconnects the connector, clears isConnected.
adapterDisconnect(a) == [a EXCEPT !.si2Connected = FALSE, !.isConnected = FALSE]

(***************************************************************************)
(* SI2Connector.  The connector is the record C of its fields, the         *)
(* WebSocket objects it created, its pending reconnect timers and the      *)
(* events it emitted during the call; each method and each handler it      *)
(* attaches to a WebSocket is an operator from C to the connector after it.*)
(***************************************************************************)
NewConnector == [ws |-> Undefined, isConnected |-> FALSE, reconnectAttempts |-> 0]

\* new WebSocket(endpoint): connecting, nothing written to it yet.
NewSocket == [readyState |-> "CONNECTING", sent |-> <<>>]

Connector == [conn |-> conn, sockets |-> sockets, timers |-> timers, emitted |-> <<>>]

\* An envelope as the backend sees it: its type and the payload it carries
\* (0 for the greeting, whose payload is fixed).
Envelope(type, payload) == [type |-> type, payload |-> payload]

\* ws.send(data) on socket k: the frame is transmitted on an open socket; on
\* a connecting socket send throws (caught at line 663), on a closing or
\* closed one the frame is discarded.
wsSend(C, k, envelope) ==
  IF C.sockets[k].readyState = "OPEN"
  THEN [C EXCEPT !.sockets[k].sent = Append(@, envelope)]
  ELSE C

\* ws.close() on socket k: the close event comes later, from the transport.
wsClose(C, k) ==
  IF C.sockets[k].readyState \in {"CONNECTING", "OPEN"}
  THEN [C EXCEPT !.sockets[k].readyState = "CLOSING"]
  ELSE C

\* sendMessage without the test of line 655: the envelope goes to the latest
\* WebSocket whatever the state of the connection.
sendMessageUnguarded(C, envelope) ==
  IF C.sockets = <<>> THEN C
  ELSE [C EXCEPT !.sockets[Len(C.sockets)].sent = Append(@, envelope)]

sendMessage(C, envelope) ==
  IF ~C.conn.isConnected \/ C.conn.ws = Undefined THEN C
  ELSE wsSend(C, C.conn.ws, envelope)

sendGreeting(C) == sendMessage(C, Envelope("greeting", 0))

sendAudio(C, payload) == sendMessage(C, Envelope("audio", payload))

sendText(C, payload) == sendMessage(C, Envelope("text", payload))

\* connect(), up to the await: a new WebSocket with the four handlers.
connect(C) ==
  [C EXCEPT !.sockets = Append(@, NewSocket),
            !.conn.ws = Len(C.sockets) + 1]

\* The 'open' handler with the greeting sent before isConnected is set.
onOpenGreetingFirst(C) ==
  LET greeted == sendGreeting(C) IN
  [greeted EXCEPT !.conn.isConnected = TRUE, !.conn.reconnectAttempts = 0]

\* The 'open' handler of a WebSocket.
onOpen(C) ==
  sendGreeting([C EXCEPT !.conn.isConnected = TRUE,
                         !.conn.reconnectAttempts = 0])

\* attemptReconnect with a delay that doubles from one attempt to the next.
attemptReconnectDoubling(C) ==
  IF C.conn.reconnectAttempts >= maxReconnectAttempts THEN C
  ELSE [C EXCEPT !.conn.reconnectAttempts = @ + 1,
                 !.timers = Append(@, reconnectDelay * 2 ^ C.conn.reconnectAttempts)]

\* attemptReconnect that counts the attempt but schedules no connect.
attemptReconnectNoTimer(C) ==
  IF C.conn.reconnectAttempts >= maxReconnectAttempts THEN C
  ELSE [C EXCEPT !.conn.reconnectAttempts = @ + 1]

\* attemptReconnect with > in place of >= in the comparison with the maximum.
attemptReconnectOneMore(C) ==
  IF C.conn.reconnectAttempts > maxReconnectAttempts THEN C
  ELSE [C EXCEPT !.conn.reconnectAttempts = @ + 1,
                 !.timers = Append(@, reconnectDelay * (C.conn.reconnectAttempts + 1))]

attemptReconnect(C) ==
  IF C.conn.reconnectAttempts >= maxReconnectAttempts THEN C
  ELSE [C EXCEPT !.conn.reconnectAttempts = @ + 1,
                 !.timers = Append(@, reconnectDelay * (C.conn.reconnectAttempts + 1))]

\* The 'close' handler of a WebSocket.
onClose(C) == attemptReconnect([C EXCEPT !.conn.isConnected = FALSE])

\* An event of the connector (an EventEmitter): its name and its argument.
Event(name, payload) == [event |-> name, payload |-> payload]

\* this.emit(name, payload)
emit(C, name, payload) == [C EXCEPT !.emitted = Append(@, Event(name, payload))]

\* The 'error' handler of a WebSocket: this.emit('error', error).
onError(C) == emit(C, "error", "none")

\* A frame as it arrives: whether JSON.parse accepts it, and the type and
\* the payload of the message it then yields.
Frame(json, type, payload) == [json |-> json, type |-> type, payload |-> payload]

\* handleMessage whose catch gives the transport up: it closes the socket.
handleMessageStrict(C, data) ==
  IF ~data.json
  THEN [C EXCEPT !.conn.isConnected = FALSE,
                 !.sockets = [k \in 1..Len(C.sockets) |->
                    IF C.sockets[k].readyState = "OPEN"
                    THEN [C.sockets[k] EXCEPT !.readyState = "CLOSING"]
                    ELSE C.sockets[k]]]
  ELSE IF data.type = "audio" THEN emit(C, "audio", data.payload)
  ELSE IF data.type = "text" THEN emit(C, "text", data.payload)
  ELSE IF data.type = "handoff" THEN emit(C, "handoff", data.payload)
  ELSE IF data.type = "data_collection" THEN emit(C, "data_collection", data.payload)
  ELSE IF data.type = "session_end" THEN emit(C, "session_end", "none")
  ELSE C

\* handleMessage with the handoff case spelled 'agent_handoff'.
handleMessageRenamed(C, data) ==
  IF ~data.json THEN C
  ELSE IF data.type = "audio" THEN emit(C, "audio", data.payload)
  ELSE IF data.type = "text" THEN emit(C, "text", data.payload)
  ELSE IF data.type = "agent_handoff" THEN emit(C, "handoff", data.payload)
  ELSE IF data.type = "data_collection" THEN emit(C, "data_collection", data.payload)
  ELSE IF data.type = "session_end" THEN emit(C, "session_end", "none")
  ELSE C

\* handleMessage: parse, then the switch on message.type.  A frame that does
\* not parse throws inside the try and is logged by the catch.
handleMessage(C, data) ==
  IF ~data.json THEN C
  ELSE IF data.type = "audio" THEN emit(C, "audio", data.payload)
  ELSE IF data.type = "text" THEN emit(C, "text", data.payload)
  ELSE IF data.type = "handoff" THEN emit(C, "handoff", data.payload)
  ELSE IF data.type = "data_collection" THEN emit(C, "data_collection", data.payload)
  ELSE IF data.type = "session_end" THEN emit(C, "session_end", "none")
  ELSE C

\* receiveAudio(), the async generator.  pos is where it stands: "none"
\* before it is called, "awaiting" in the await of line 705 with its once
\* listener on audioEmitter, "yielded" in the yield of line 710 while the
\* consumer has the chunk, "done" after the loop.  arrived lists the 'audio'
\* events emitted since the generator registered its listener on the connector
\* (line 700), each with its data and whether the connector was connected;
\* delivered lists the events whose data was yielded (as a Buffer, decoded
\* from base64), by their position in arrived.
NoStream == [pos |-> "none", arrived |-> <<>>, delivered |-> <<>>]

\* The head of the loop: the test of line 704, then the await of line 705.
receiveAudioLoop(C, st) ==
  [st EXCEPT !.pos = IF C.conn.isConnected THEN "awaiting" ELSE "done"]

\* The first next(): the generator runs from its start to the await.
receiveAudio(C, st) == receiveAudioLoop(C, st)

\* A next() after a yield.
receiveAudioNext(C, st) == receiveAudioLoop(C, st)

\* An 'audio' event of the connector reaches the listener of line 700, which
\* emits it on audioEmitter.  There it has a listener only while the
\* generator is in its await (once, line 706); the generator then resumes
\* before any other event is handled and yields the data if it is truthy
\* (line 709), or goes round the loop.
onAudio(st, data, connected) ==
  IF st.pos = "none" THEN st
  ELSE LET noted == [st EXCEPT !.arrived =
                       Append(@, [data |-> data, connected |-> connected])]
       IN IF st.pos # "awaiting" THEN noted
          ELSE IF data # ""
          THEN [noted EXCEPT !.pos = "yielded",
                             !.delivered = Append(@, Len(noted.arrived))]
          ELSE [noted EXCEPT !.pos = IF connected THEN "awaiting" ELSE "done"]

disconnect(C) ==
  LET closed == IF C.conn.ws = Undefined THEN C ELSE wsClose(C, C.conn.ws) IN
  [closed EXCEPT !.conn.ws = Undefined, !.conn.isConnected = FALSE]

(***************************************************************************)
(* AudioPipeline.  A value handed to it is a record of its kind ("buffer"  *)
(* for a Buffer, "string" for a string, "object" for any other object) and *)
(* its data: the bytes of a Buffer, or the characters of a string or of    *)
(* the object's `data` property (empty if it has none), each character     *)
(* given as its index in the base64 alphabet.                              *)
(***************************************************************************)
Buffer(bytes) == [kind |-> "buffer", data |-> bytes]

String(chars) == [kind |-> "string", data |-> chars]

Object(chars) == [kind |-> "object", data |-> chars]

\* No value yet.
NoAudio == [kind |-> "none", data |-> <<>>]

\* The outcome of a conversion that throws 'Unknown audio data format'.
UnknownFormatError == [kind |-> "error", data |-> <<>>]

\* Buffer.from(chars, 'base64'): every four characters give three bytes; of
\* a last group of two or three characters the whole bytes are kept, a
\* single last character is dropped.
RECURSIVE Base64Decode(_)
Base64Decode(chars) ==
  IF Len(chars) < 2 THEN <<>>
  ELSE LET b1 == chars[1] * 4 + chars[2] \div 16 IN
       IF Len(chars) = 2 THEN <<b1>>
       ELSE LET b2 == (chars[2] % 16) * 16 + chars[3] \div 4 IN
            IF Len(chars) = 3 THEN <<b1, b2>>
            ELSE <<b1, b2, (chars[3] % 4) * 64 + chars[4]>>
                   \o Base64Decode(SubSeq(chars, 5, Len(chars)))

ensureSI2Format(pcmData) == pcmData

ensureLiveKitFormat(buffer) == buffer

convertLiveKitToSI2(audioBuffer) == ensureSI2Format(audioBuffer)

\* convertSI2ToLiveKit without the Buffer.isBuffer branch: a Buffer, which has
\* no `data` property, falls through to the throw.
convertSI2ToLiveKitNoBuffer(audioData) ==
  IF audioData.kind = "string"
  THEN ensureLiveKitFormat(Buffer(Base64Decode(audioData.data)))
  ELSE IF audioData.kind = "object" /\ audioData.data # <<>>
  THEN ensureLiveKitFormat(Buffer(Base64Decode(audioData.data)))
  ELSE UnknownFormatError

convertSI2ToLiveKit(audioData) ==
  IF audioData.kind = "string"
  THEN ensureLiveKitFormat(Buffer(Base64Decode(audioData.data)))
  ELSE IF audioData.kind = "buffer"
  THEN ensureLiveKitFormat(audioData)
  ELSE IF audioData.data # <<>>
  THEN ensureLiveKitFormat(Buffer(Base64Decode(audioData.data)))
  ELSE UnknownFormatError

(***************************************************************************)
(* The state machine.                                                      *)
(***************************************************************************)
\* lastCall: a call of createSession, endSession or cleanupExpiredSessions with
\* its argument and the value it returned, or a call of another registry method
\* that did not find its session; NoCall after any other step.
Call(op, id, arg, ret) == [op |-> op, id |-> id, arg |-> arg, ret |-> ret]

NoCall == Call("none", Undefined, Undefined, Undefined)

Handles == 1..Len(heap)

\* The number of createSession calls made so far by the callers of the model.
Created == Cardinality({h \in Handles : heap[h].sessionId \in Ids})

\* The live session an id addresses (Undefined if the id is not active).
LiveSession(id) == MapGet(activeSessions, id)

IsLive(h) == \E i \in 1..Len(activeSessions) : activeSessions[i].obj = h

\* The record of a call of method op on id: the call itself if it took the
\* `Session not found` branch, NoCall otherwise.
NotFound(op, id) ==
  IF LiveSession(id) = Undefined THEN Call(op, id, Undefined, Undefined) ELSE NoCall

Install(R) ==
  /\ activeSessions' = R.activeSessions
  /\ sessionHistory' = R.sessionHistory
  /\ heap' = R.heap

\* The handles a call moved out of the active set, in the order they left.
NewlyEnded(R) ==
  LET old == [i \in 1..Len(activeSessions) |-> activeSessions[i].obj]
  IN SelectSeq(old, LAMBDA h : \A i \in 1..Len(R.activeSessions) :
                                  R.activeSessions[i].obj # h)

InstallConnector(C) ==
  /\ conn' = C.conn
  /\ sockets' = C.sockets
  /\ timers' = C.timers
  /\ emitted' = C.emitted

registryVars == <<activeSessions, sessionHistory, heap, now, adapter,
                  received, handoffs, ended>>

\* The connector as constructed (lines 546-559), before any call.
InitConnector ==
  /\ conn = NewConnector
  /\ sockets = <<>>
  /\ timers = <<>>
  /\ emitted = <<>>
  /\ connHist = [connectCalls |-> 0, sinceOpen |-> 0, exhausted |-> 0,
                 uncaught |-> 0, disconnected |-> FALSE,
                 payloads |-> 0, dropped |-> {},
                 frames |-> <<>>, applied |-> <<>>,
                 promise |-> "none"]
  /\ stream = NoStream

\* A chunk in the pipeline: the value it came in as, what convertLiveKitToSI2
\* made of it and what convertSI2ToLiveKit returned for it.
Chunk(input) == [input |-> input, si2 |-> NoAudio, livekit |-> NoAudio]

NoChunk == Chunk(NoAudio)

Init ==
  /\ activeSessions = <<>>
  /\ sessionHistory = <<>>
  /\ heap = <<>>
  /\ now = 0
  /\ adapter = <<>>
  /\ lastCall = NoCall
  /\ received = <<>>
  /\ handoffs = <<>>
  /\ ended = <<>>
  /\ InitConnector
  /\ audio = NoChunk

\* bridge-core entry: sessionManager.createSession(...), then the adapter is
\* constructed around the returned object.
CreateSession(id) ==
  /\ Created < MaxSessions
  /\ Install(createSession(Registry, id, now))
  /\ adapter' = Append(adapter, NewAdapter)
  /\ received' = Append(received, <<>>)
  /\ handoffs' = Append(handoffs, <<>>)
  /\ lastCall' = Call("createSession", id, Undefined, Len(heap) + 1)
  /\ UNCHANGED <<now, ended>>
  /\ UNCHANGED <<connVars, audio, stream>>

UpdateSessionStats(id, updates) ==
  /\ Install(updateSessionStats(Registry, id, updates))
  /\ lastCall' = NotFound("updateSessionStats", id)
  /\ UNCHANGED <<now, adapter, received, handoffs, ended>>
  /\ UNCHANGED <<connVars, audio, stream>>

AddDataPoint(id, dataPoint) ==
  /\ LiveSession(id) # Undefined => Len(received[LiveSession(id)]) < MaxData
  /\ Install(addDataPoint(Registry, id, dataPoint))
  /\ received' = IF LiveSession(id) = Undefined THEN received
                 ELSE [received EXCEPT ![LiveSession(id)] = Append(@, dataPoint)]
  /\ lastCall' = NotFound("addDataPoint", id)
  /\ UNCHANGED <<now, adapter, handoffs, ended>>
  /\ UNCHANGED <<connVars, audio, stream>>

RecordAgentHandoff(id, fromAgent, toAgent) ==
  /\ LiveSession(id) # Undefined => Len(handoffs[LiveSession(id)]) < MaxHandoffs
  /\ Install(recordAgentHandoff(Registry, id, fromAgent, toAgent))
  /\ handoffs' = IF LiveSession(id) = Undefined THEN handoffs
                 ELSE [handoffs EXCEPT ![LiveSession(id)] = Append(@, toAgent)]
  /\ lastCall' = NotFound("recordAgentHandoff", id)
  /\ UNCHANGED <<now, adapter, received, ended>>
  /\ UNCHANGED <<connVars, audio, stream>>

EndSession(id) ==
  /\ Install(endSession(Registry, id, now))
  /\ ended' = ended \o NewlyEnded(endSession(Registry, id, now))
  /\ lastCall' = Call("endSession", id, Undefined, endSessionResult(Registry, id))
  /\ UNCHANGED <<now, adapter, received, handoffs>>
  /\ UNCHANGED <<connVars, audio, stream>>

CleanupExpiredSessions(maxAgeHours) ==
  LET res == cleanupExpiredSessions(Registry, maxAgeHours, now) IN
  /\ Install(res.reg)
  /\ ended' = ended \o NewlyEnded(res.reg)
  /\ lastCall' = Call("cleanupExpiredSessions", Undefined, maxAgeHours, res.cleanedCount)
  /\ UNCHANGED <<now, adapter, received, handoffs>>
  /\ UNCHANGED <<connVars, audio, stream>>

\* bridge-core entry, lines 81-90: the connector connected and adapter.start
\* registered the handlers.  Nothing here looks at the registry: the adapter
\* keeps the session object whether or not the session is still active.
BridgeStart(h) ==
  /\ ~adapter[h].handlers
  /\ adapter' = [adapter EXCEPT ![h] = [handlers |-> TRUE, isConnected |-> TRUE,
                                        si2Connected |-> TRUE]]
  /\ lastCall' = NoCall
  /\ UNCHANGED <<activeSessions, sessionHistory, heap, now, received, handoffs, ended>>
  /\ UNCHANGED <<connVars, audio, stream>>

\* bridge-core entry, lines 84-85 and 93-97: connect() rejects before a
\* transport exists (new WebSocket throws at line 565 on an endpoint that is
\* no URL, as with the default metadata '{}'), and the catch of the entry
\* ends the session, passing no reason, and rethrows.
SetupFailed(h) ==
  LET sessionId == heap[h].sessionId IN
  /\ connHist.connectCalls = 0
  /\ ~adapter[h].handlers
  /\ Install(endSession(Registry, sessionId, now))
  /\ ended' = ended \o NewlyEnded(endSession(Registry, sessionId, now))
  /\ connHist' = [connHist EXCEPT !.connectCalls = @ + 1, !.promise = "rejected"]
  /\ lastCall' = Call("setupFailed", sessionId, Undefined,
                      endSessionResult(Registry, sessionId))
  /\ UNCHANGED <<now, adapter, received, handoffs>>
  /\ UNCHANGED <<conn, sockets, timers, emitted, audio, stream>>

\* The connector of session object h emits an event to the handlers of its
\* adapter: they are registered.  Nothing unregisters them, and a connector
\* that was disconnected reconnects and goes on receiving.
Delivers(h) == adapter[h].handlers

OnAgentHandoff(h, handoffTo) ==
  /\ Delivers(h)
  /\ heap' = [heap EXCEPT ![h] = onAgentHandoff(@, handoffTo)]
  /\ lastCall' = NoCall
  /\ UNCHANGED <<activeSessions, sessionHistory, now, adapter, received, handoffs, ended>>
  /\ UNCHANGED <<connVars, audio, stream>>

OnDataCollection(h, dataPoint) ==
  /\ Delivers(h)
  /\ Len(received[h]) < MaxData
  /\ heap' = [heap EXCEPT ![h] = onDataCollection(@, dataPoint)]
  /\ received' = [received EXCEPT ![h] = Append(@, dataPoint)]
  /\ lastCall' = NoCall
  /\ UNCHANGED <<activeSessions, sessionHistory, now, adapter, handoffs, ended>>
  /\ UNCHANGED <<connVars, audio, stream>>

OnSessionEnd(h) ==
  /\ Delivers(h)
  /\ adapter' = [adapter EXCEPT ![h] = adapterDisconnect(@)]
  /\ lastCall' = NoCall
  /\ UNCHANGED <<activeSessions, sessionHistory, heap, now, received, handoffs, ended>>
  /\ UNCHANGED <<connVars, audio, stream>>

\* A caller asks for the global statistics; nothing is written.
GetGlobalStats ==
  /\ lastCall' = Call("getGlobalStats", Undefined, Undefined, getGlobalStats(Registry))
  /\ UNCHANGED <<activeSessions, sessionHistory, heap, now, adapter,
                 received, handoffs, ended>>
  /\ UNCHANGED <<connVars, audio, stream>>

Tick ==
  /\ now < MaxHours * HourMs
  /\ now' = now + HourMs
  /\ lastCall' = NoCall
  /\ UNCHANGED <<activeSessions, sessionHistory, heap, adapter, received, handoffs, ended>>
  /\ UNCHANGED <<connVars, audio, stream>>

\* bridge-core entry, lines 84-85: the owner's one call of connect() on the
\* connector it constructed.
Connect ==
  /\ connHist.connectCalls = 0
  /\ InstallConnector(connect(Connector))
  /\ connHist' = [connHist EXCEPT !.connectCalls = @ + 1, !.disconnected = FALSE,
                                   !.promise = "pending"]
  /\ lastCall' = Call("connect", Len(sockets) + 1, Undefined, Undefined)
  /\ UNCHANGED <<registryVars, audio, stream>>

\* A further connect() by the owner of a connector it has disconnected.
\* connect() tests nothing: it overwrites this.ws (line 565) with a new
\* WebSocket, and the previous one keeps its four handlers.
ConnectAgain ==
  /\ connHist.connectCalls \in 1..(MaxConnects - 1)
  /\ connHist.disconnected
  /\ Len(sockets) < MaxSockets
  /\ InstallConnector(connect(Connector))
  /\ connHist' = [connHist EXCEPT !.connectCalls = @ + 1, !.disconnected = FALSE]
  /\ lastCall' = Call("connect", Len(sockets) + 1, Undefined, Undefined)
  /\ UNCHANGED <<registryVars, audio, stream>>

\* The transport of socket k is established: its 'open' event.  The first
\* socket is the one of the owner's connect(): its open resolves the promise
\* that call awaits (line 593); no other event settles it, as the reject
\* listener of line 594 comes after the 'error' handler that throws.
SocketOpen(k) ==
  /\ sockets[k].readyState = "CONNECTING"
  /\ InstallConnector(onOpen([Connector EXCEPT !.sockets[k].readyState = "OPEN"]))
  /\ connHist' = [connHist EXCEPT !.sinceOpen = 0,
                                   !.promise = IF k = 1 /\ @ = "pending"
                                               THEN "resolved" ELSE @]
  /\ lastCall' = Call("open", k, Undefined, Undefined)
  /\ UNCHANGED <<registryVars, audio, stream>>

\* The transport of socket k is gone (refused, dropped, or closed by either
\* side): its 'close' event.
SocketClose(k) ==
  /\ sockets[k].readyState # "CLOSED"
  /\ InstallConnector(onClose([Connector EXCEPT !.sockets[k].readyState = "CLOSED"]))
  /\ connHist' = [connHist EXCEPT !.exhausted =
                    IF conn.reconnectAttempts >= maxReconnectAttempts THEN @ + 1 ELSE @]
  /\ lastCall' = Call("close", k, Undefined, Undefined)
  /\ UNCHANGED <<registryVars, audio, stream>>

\* The 'error' event of socket k.  No listener for 'error' is registered on
\* the connector, so the emit at line 588 throws out of the handler.
SocketError(k) ==
  /\ sockets[k].readyState # "CLOSED"
  /\ connHist.uncaught < MaxErrors
  /\ InstallConnector(onError(Connector))
  /\ connHist' = [connHist EXCEPT !.uncaught = @ + 1]
  /\ lastCall' = Call("error", k, Undefined, Undefined)
  /\ UNCHANGED <<registryVars, audio, stream>>

\* The callback of the i-th pending reconnect timer runs: connect().
ReconnectTimer(i) ==
  /\ Len(sockets) < MaxSockets
  /\ InstallConnector(connect([Connector EXCEPT !.timers =
                         [j \in 1..(Len(timers) - 1) |->
                            IF j < i THEN timers[j] ELSE timers[j + 1]]]))
  /\ connHist' = [connHist EXCEPT !.sinceOpen = @ + 1]
  /\ lastCall' = Call("timer", Len(sockets) + 1, timers[i], Undefined)
  /\ UNCHANGED <<registryVars, audio, stream>>

\* The owner calls disconnect() on the connector.
Disconnect ==
  /\ connHist.connectCalls > 0
  /\ InstallConnector(disconnect(Connector))
  /\ connHist' = [connHist EXCEPT !.disconnected = TRUE]
  /\ lastCall' = Call("disconnect", Undefined, Undefined, Undefined)
  /\ UNCHANGED <<registryVars, audio, stream>>

Sockets == 1..Len(sockets)

\* The test of sendMessage, line 655.
Connected == conn.isConnected /\ conn.ws # Undefined

\* The history after a send call: payloads are numbered in call order, and
\* those passed while the connector was not connected are remembered.
Passed == [connHist EXCEPT !.payloads = @ + 1,
                           !.dropped = IF Connected THEN @ ELSE @ \cup {connHist.payloads + 1}]

\* The adapter forwards a chunk of call-leg audio: si2Connector.sendAudio.
\* The promise it returns resolves to undefined on every path.
SendAudio ==
  /\ connHist.payloads < MaxSends
  /\ InstallConnector(sendAudio(Connector, connHist.payloads + 1))
  /\ connHist' = Passed
  /\ lastCall' = Call("sendAudio", Undefined, connHist.payloads + 1, Undefined)
  /\ UNCHANGED <<registryVars, audio, stream>>

SendText ==
  /\ connHist.payloads < MaxSends
  /\ InstallConnector(sendText(Connector, connHist.payloads + 1))
  /\ connHist' = Passed
  /\ lastCall' = Call("sendText", Undefined, connHist.payloads + 1, Undefined)
  /\ UNCHANGED <<registryVars, audio, stream>>

\* The outcome of an adapter call that throws 'SI2 connector not available'.
NotAvailableError == Undefined - 3

\* SIPAdapter.sendAudio(buffer) on chunk number n of the call leg.  Before
\* start() there is no connector and the call throws; after it the chunk, as
\* convertLiveKitToSI2 returns it, goes to si2Connector.sendAudio.  No path
\* writes to the session.
AdapterSendAudio(h) ==
  LET n == connHist.payloads + 1 IN
  /\ n <= MaxSends
  /\ IF ~adapter[h].handlers
     THEN /\ lastCall' = Call("adapterSendAudio", Undefined, n, NotAvailableError)
          /\ connHist' = [connHist EXCEPT !.payloads = n]
          /\ UNCHANGED <<conn, sockets, timers, emitted>>
     ELSE /\ InstallConnector(sendAudio(Connector, n))
          /\ connHist' = Passed
          /\ lastCall' = Call("adapterSendAudio", Undefined, n, Undefined)
  /\ UNCHANGED <<registryVars, audio, stream>>

\* The frames the backend sends: the five message types, a type the
\* connector does not know, and a frame that is not JSON.
Frames ==
  {Frame(TRUE, "audio", "pcm"), Frame(TRUE, "text", "hello"),
   Frame(TRUE, "session_end", "none"), Frame(TRUE, "status", "none"),
   Frame(FALSE, "none", "none")}
  \cup {Frame(TRUE, "handoff", a) : a \in Agents}
  \cup {Frame(TRUE, "data_collection", d) : d \in DataPoints}

\* The session whose bridge entry constructed this connector: the first.
Owner == 1

\* The events for which SIPAdapter registers a listener (lines 149-182).
Listened == {"audio", "handoff", "data_collection", "session_end"}

\* Socket k receives a frame: its 'message' handler runs handleMessage, and
\* the emit inside runs the adapter's listener for the event, if registered,
\* before it returns.
SocketMessage(k, data) ==
  LET C == handleMessage(Connector, data)
      heard == /\ C.emitted # <<>>
               /\ Owner \in Handles
               /\ adapter[Owner].handlers
               /\ C.emitted[1].event \in Listened
      event == IF heard THEN C.emitted[1].event ELSE "none"
      payload == C.emitted[1].payload
  IN /\ sockets[k].readyState \in {"OPEN", "CLOSING"}
     /\ Len(connHist.frames) < MaxFrames
     /\ heap' = IF event = "handoff"
                THEN [heap EXCEPT ![Owner] = onAgentHandoff(@, payload)]
                ELSE IF event = "data_collection"
                THEN [heap EXCEPT ![Owner] = onDataCollection(@, payload)]
                ELSE heap
     /\ received' = IF event = "data_collection"
                    THEN [received EXCEPT ![Owner] = Append(@, payload)]
                    ELSE received
     /\ adapter' = IF event = "session_end"
                   THEN [adapter EXCEPT ![Owner] = adapterDisconnect(@)]
                   ELSE adapter
     /\ InstallConnector(IF event = "session_end" THEN disconnect(C) ELSE C)
     /\ connHist' = [connHist EXCEPT
                       !.frames = Append(@, data),
                       !.applied = IF heard THEN Append(@, C.emitted[1]) ELSE @,
                       !.disconnected = IF event = "session_end" THEN TRUE ELSE @]
     /\ stream' = IF C.emitted # <<>> /\ C.emitted[1].event = "audio"
                  THEN onAudio(stream, C.emitted[1].payload, conn.isConnected)
                  ELSE stream
     /\ lastCall' = Call("message", k, Undefined, Undefined)
     /\ UNCHANGED <<activeSessions, sessionHistory, now, handoffs, ended, audio>>

\* A consumer starts iterating receiveAudio() of the connector its adapter
\* was started with (logger.ts:216), which is after connect() has resolved.
ReceiveAudio ==
  /\ connHist.promise = "resolved"
  /\ stream.pos = "none"
  /\ stream' = receiveAudio(Connector, stream)
  /\ lastCall' = Call("receiveAudio", Undefined, Undefined, Undefined)
  /\ UNCHANGED <<registryVars, connVars, audio>>

\* The consumer is done with the chunk it was given and asks for the next:
\* the generator goes on after its yield.
NextChunk ==
  /\ stream.pos = "yielded"
  /\ stream' = receiveAudioNext(Connector, stream)
  /\ lastCall' = Call("next", Undefined, Undefined, Undefined)
  /\ UNCHANGED <<registryVars, connVars, audio>>

\* The audio frames of the backend: one that carries data, one whose data
\* is empty.
StreamFrames == {Frame(TRUE, "audio", "pcm"), Frame(TRUE, "audio", "")}

\* The values the pipeline is handed: Buffers of up to MaxLen bytes, and
\* strings and objects whose text has up to MaxLen + 1 characters (one more
\* than a whole base64 group of MaxLen bytes), the empty ones included.
Bytes == {0, 128, 255}

Chars == {0, 21, 63}

SeqsUpTo(S, n) == UNION {[1..k -> S] : k \in 0..n}

AudioInputs ==
  {Buffer(b) : b \in SeqsUpTo(Bytes, MaxLen)}
  \cup {String(c) : c \in SeqsUpTo(Chars, MaxLen + 1)}
  \cup {Object(c) : c \in SeqsUpTo(Chars, MaxLen + 1)}

\* SIPAdapter.sendAudio, line 207: a Buffer from the call leg is converted
\* for the backend.
ConvertLiveKitToSI2 ==
  /\ audio.input.kind = "buffer"
  /\ audio.si2 = NoAudio
  /\ audio.livekit = NoAudio
  /\ audio' = [audio EXCEPT !.si2 = convertLiveKitToSI2(audio.input)]
  /\ UNCHANGED <<registryVars, connVars, lastCall, stream>>

\* The conversion for the call leg (logger.ts lines 151 and 217), of what
\* convertLiveKitToSI2 returned if it ran, of the value as it came otherwise.
ConvertSI2ToLiveKit ==
  /\ audio.input # NoAudio
  /\ audio.livekit = NoAudio
  /\ audio' = [audio EXCEPT !.livekit =
                 convertSI2ToLiveKit(IF audio.si2 # NoAudio THEN audio.si2
                                     ELSE audio.input)]
  /\ UNCHANGED <<registryVars, connVars, lastCall, stream>>

\* The registry's lifecycle: who is active, who is in the history, when.
Next ==
  \/ \E id \in Ids : CreateSession(id)
  \/ \E id \in Ids : EndSession(id)
  \/ \E a \in AgeHours : CleanupExpiredSessions(a)
  \/ Tick

Spec == Init /\ [][Next]_vars

\* The lifecycle of a registry that already holds about HistoryLimit active
\* sessions, all created at time 0 under ids of their own.
Prefilled == {HistoryLimit - 1, HistoryLimit, HistoryLimit + 1}

InitHistory ==
  \E n \in Prefilled :
    /\ activeSessions = [i \in 1..n |-> [key |-> MaxId + i, obj |-> i]]
    /\ sessionHistory = <<>>
    /\ heap = [i \in 1..n |-> NewSession(MaxId + i, 0)]
    /\ now = 0
    /\ adapter = [i \in 1..n |-> NewAdapter]
    /\ lastCall = NoCall
    /\ received = [i \in 1..n |-> <<>>]
    /\ handoffs = [i \in 1..n |-> <<>>]
    /\ ended = <<>>
    /\ InitConnector
    /\ audio = NoChunk

SpecHistory == InitHistory /\ [][Next]_vars

\* The lifecycle together with every operation that writes collectedData or
\* stats.dataPointsCollected.
NextData ==
  \/ \E id \in Ids : CreateSession(id)
  \/ \E h \in Handles : BridgeStart(h)
  \/ \E h \in Handles, d \in DataPoints : OnDataCollection(h, d)
  \/ \E h \in Handles : OnSessionEnd(h)
  \/ \E id \in Ids, d \in DataPoints : AddDataPoint(id, d)
  \/ \E id \in Ids, u \in StatUpdates : UpdateSessionStats(id, u)
  \/ \E id \in Ids : EndSession(id)

SpecData == Init /\ [][NextData]_vars

\* The lifecycle together with every operation that writes currentAgent or
\* stats.agentHandoffs.
NextHandoff ==
  \/ \E id \in Ids : CreateSession(id)
  \/ \E h \in Handles : BridgeStart(h)
  \/ \E h \in Handles, t \in Agents : OnAgentHandoff(h, t)
  \/ \E h \in Handles : OnSessionEnd(h)
  \/ \E id \in Ids, f \in Agents, t \in Agents : RecordAgentHandoff(id, f, t)
  \/ \E id \in Ids, u \in StatUpdates : UpdateSessionStats(id, u)
  \/ \E id \in Ids : EndSession(id)

SpecHandoff == Init /\ [][NextHandoff]_vars

\* Sequences of recordAgentHandoff calls on the sessions of the registry.
NextRecord ==
  \/ \E id \in Ids : CreateSession(id)
  \/ \E id \in Ids : EndSession(id)
  \/ \E id \in Ids, f \in Agents, t \in Agents : RecordAgentHandoff(id, f, t)

SpecRecord == Init /\ [][NextRecord]_vars

\* The lifecycle together with the three methods that look a session up by id
\* and write to it.  Data points are added to any id; handoffs and stats
\* updates are here addressed only to ids that are not active (SpecHandoff and
\* SpecRecord have the calls that reach a live session).
NextLookup ==
  \/ \E id \in Ids : CreateSession(id)
  \/ \E id \in Ids : EndSession(id)
  \/ \E id \in Ids, d \in DataPoints : AddDataPoint(id, d)
  \/ \E id \in Ids, f \in Agents, t \in Agents :
       ~MapHas(activeSessions, id) /\ RecordAgentHandoff(id, f, t)
  \/ \E id \in Ids, u \in StatUpdates :
       ~MapHas(activeSessions, id) /\ UpdateSessionStats(id, u)

SpecLookup == Init /\ [][NextLookup]_vars

\* The expiry sweep among the calls of the adapters: every method of the
\* registry is synchronous, so calls from different call contexts interleave
\* as whole calls, in any order.  Which data point is added and which agent
\* is handed to does not matter to the sweep: one of each is used.
NextChurn ==
  \/ \E id \in Ids : CreateSession(id)
  \/ \E id \in Ids : AddDataPoint(id, "full_name")
  \/ \E id \in Ids : RecordAgentHandoff(id, InitialAgent, "spotlight")
  \/ \E id \in Ids : EndSession(id)
  \/ \E a \in AgeHours : CleanupExpiredSessions(a)
  \/ Tick

SpecChurn == Init /\ [][NextChurn]_vars

\* The global statistics read at any moment of the life of the sessions.
NextStats ==
  \/ \E id \in Ids : CreateSession(id)
  \/ \E id \in Ids : AddDataPoint(id, "full_name")
  \/ \E id \in Ids : RecordAgentHandoff(id, InitialAgent, "spotlight")
  \/ \E id \in Ids : EndSession(id)
  \/ Tick
  \/ GetGlobalStats

SpecStats == Init /\ [][NextStats]_vars

\* The four methods that write to the session of an id, called for several
\* sessions in any order.
NextShared ==
  \/ \E id \in Ids : CreateSession(id)
  \/ \E id \in Ids : AddDataPoint(id, "full_name")
  \/ \E id \in Ids : RecordAgentHandoff(id, InitialAgent, "spotlight")
  \/ \E id \in Ids, u \in StatUpdates : UpdateSessionStats(id, u)
  \/ \E id \in Ids : EndSession(id)

SpecShared == Init /\ [][NextShared]_vars

\* The connection of one connector: its owner connects and disconnects it,
\* its transports come up, fail and close, and its reconnect timers fire.
NextReconnect ==
  \/ Connect
  \/ Disconnect
  \/ \E k \in Sockets : SocketOpen(k)
  \/ \E k \in Sockets : SocketClose(k)
  \/ \E k \in Sockets : SocketError(k)
  \/ \E i \in 1..Len(timers) : ReconnectTimer(i)

SpecReconnect == Init /\ [][NextReconnect]_vars

\* A connector whose owner disconnects it and connects it again, with the
\* events of all its transports, whenever they arrive.
NextOwner ==
  \/ Connect
  \/ Disconnect
  \/ ConnectAgain
  \/ \E k \in Sockets : SocketOpen(k)
  \/ \E k \in Sockets : SocketClose(k)
  \/ \E i \in 1..Len(timers) : ReconnectTimer(i)

SpecOwner == Init /\ [][NextOwner]_vars

\* One connector and the consumer of its receiveAudio(): the audio frames of
\* the backend arrive whenever they do, the consumer takes its time with
\* each chunk, and the connection ends by disconnect() or by a close.
NextStream ==
  \/ Connect
  \/ \E k \in Sockets : SocketOpen(k)
  \/ ReceiveAudio
  \/ \E k \in Sockets, data \in StreamFrames : SocketMessage(k, data)
  \/ NextChunk
  \/ Disconnect
  \/ \E k \in Sockets : SocketClose(k)

SpecStream == Init /\ [][NextStream]_vars

\* The connection as its owner awaits it.  What the connector itself has
\* scheduled runs: a reconnect timer that is pending fires.  What the network
\* does to a transport is not promised: it may never open it nor fail it.
SpecAwait ==
  /\ Init
  /\ [][NextReconnect]_vars
  /\ WF_vars(\E i \in 1..Len(timers) : ReconnectTimer(i))

\* The connection together with the calls that send through it ('error'
\* events, which write to no field of the connector, are left to
\* SpecReconnect).
NextSend ==
  \/ Connect
  \/ Disconnect
  \/ \E k \in Sockets : SocketOpen(k)
  \/ \E k \in Sockets : SocketClose(k)
  \/ \E i \in 1..Len(timers) : ReconnectTimer(i)
  \/ SendAudio
  \/ SendText

SpecSend == Init /\ [][NextSend]_vars

\* One call: its session, the first transport of its connector, the adapter
\* started once connect() has resolved, and the frames the backend sends.
NextDispatch ==
  \/ \E id \in Ids : Owner \notin Handles /\ CreateSession(id)
  \/ Connect
  \/ \E k \in Sockets : SocketOpen(k)
  \/ Connected /\ Owner \in Handles /\ BridgeStart(Owner)
  \/ \E k \in Sockets, data \in Frames : SocketMessage(k, data)
  \/ \E k \in Sockets : SocketClose(k)

SpecDispatch == Init /\ [][NextDispatch]_vars

\* One call whose backend goes away: its session, the adapter started once
\* connect() has resolved, and the transports of its connector, which open
\* and close, with a reconnect after each close.  Nothing pending is left
\* undone: the event loop runs every timer that is due and every handler
\* whose event has arrived, so a step that stays possible is taken.
NextFatal ==
  \/ \E id \in Ids : Owner \notin Handles /\ CreateSession(id)
  \/ Connect
  \/ \E k \in Sockets : SocketOpen(k)
  \/ Connected /\ Owner \in Handles /\ BridgeStart(Owner)
  \/ \E k \in Sockets : SocketClose(k)
  \/ \E i \in 1..Len(timers) : ReconnectTimer(i)

SpecFatal == Init /\ [][NextFatal]_vars /\ WF_vars(NextFatal)

\* One call and the audio of its call leg: the adapter is handed chunks
\* while the transports of its connector open and close.
NextForward ==
  \/ \E id \in Ids : Owner \notin Handles /\ CreateSession(id)
  \/ Connect
  \/ \E k \in Sockets : SocketOpen(k)
  \/ Connected /\ Owner \in Handles /\ BridgeStart(Owner)
  \/ \E k \in Sockets : SocketClose(k)
  \/ \E i \in 1..Len(timers) : ReconnectTimer(i)
  \/ Owner \in Handles /\ AdapterSendAudio(Owner)

SpecForward == Init /\ [][NextForward]_vars

\* The AudioPipeline on its own: one value, whatever it is, and the
\* conversions applied to it.
InitAudio ==
  /\ activeSessions = <<>>
  /\ sessionHistory = <<>>
  /\ heap = <<>>
  /\ now = 0
  /\ adapter = <<>>
  /\ lastCall = NoCall
  /\ received = <<>>
  /\ handoffs = <<>>
  /\ ended = <<>>
  /\ InitConnector
  /\ audio \in {Chunk(a) : a \in AudioInputs}

NextAudio ==
  \/ ConvertLiveKitToSI2
  \/ ConvertSI2ToLiveKit

SpecAudio == InitAudio /\ [][NextAudio]_vars

\* One call from its setup to after its end, seen from the connection: the
\* entry creates the session and, with nothing run in between (lines 71-85
\* have no await before connect()), connects or fails to; the transports open,
\* fail and close, and the reconnect timers fire; time passes and the expiry
\* sweep runs.
NextCall ==
  \/ \E id \in Ids : Owner \notin Handles /\ CreateSession(id)
  \/ Owner \in Handles /\ IsLive(Owner) /\ SetupFailed(Owner)
  \/ Owner \in Handles /\ IsLive(Owner) /\ Connect
  \/ \E k \in Sockets : SocketOpen(k)
  \/ Connected /\ Owner \in Handles /\ BridgeStart(Owner)
  \/ \E k \in Sockets : SocketError(k)
  \/ \E k \in Sockets : SocketClose(k)
  \/ \E i \in 1..Len(timers) : ReconnectTimer(i)
  \/ Tick
  \/ \E a \in AgeHours : CleanupExpiredSessions(a)

SpecCall == Init /\ [][NextCall]_vars

\* One call to after its end, seen from the session: the frames the backend
\* sends on the first transport, while time passes and the expiry sweep runs.
NextEnded ==
  \/ \E id \in Ids : Owner \notin Handles /\ CreateSession(id)
  \/ Connect
  \/ \E k \in Sockets : SocketOpen(k)
  \/ Connected /\ Owner \in Handles /\ BridgeStart(Owner)
  \/ \E k \in Sockets, data \in Frames : SocketMessage(k, data)
  \/ \E k \in Sockets : SocketClose(k)
  \/ Tick
  \/ \E a \in AgeHours : CleanupExpiredSessions(a)

SpecEnded == Init /\ [][NextEnded]_vars

(***************************************************************************)
(* Properties.                                                             *)
(***************************************************************************)
Range(seq) == {seq[i] : i \in 1..Len(seq)}

IsPrefix(a, b) == Len(a) <= Len(b) /\ a = SubSeq(b, 1, Len(a))

Occurrences(seq, x) == Cardinality({i \in 1..Len(seq) : seq[i] = x})

HasEnded(h) == heap[h].endTime # Undefined

\* C1: a created session is what getSession(id) returns until it is ended;
\* once ended it is not returned by getSession(id), is absent from
\* getActiveSessions() and occurs exactly once in the session history.
C1_GetUntilEnded ==
  \A h \in Handles :
    IF ~HasEnded(h)
    THEN getSession(Registry, heap[h].sessionId) = h
    ELSE /\ getSession(Registry, heap[h].sessionId) # h
         /\ h \notin Range(getActiveSessions(Registry))
         /\ Occurrences(getSessionHistory(Registry), h) = 1

\* C2: for every session, active or in the history,
\* stats.dataPointsCollected equals the length of collectedData.
C2_CountMatchesData ==
  \A h \in Handles :
    heap[h].stats.dataPointsCollected = Len(heap[h].collectedData)

\* C3: collectedData only grows at its end, and for a live session it is the
\* sequence of the data points addressed to it (addDataPoint calls and
\* data_collection events) in the order they arrived.
C3_AppendStep ==
  \A h \in Handles : IsPrefix(heap[h].collectedData, heap'[h].collectedData)

C3_AppendOnly ==
  /\ [][C3_AppendStep]_vars
  /\ [](\A h \in Handles : IsLive(h) => heap[h].collectedData = received[h])

C3_Witness ==
  \E h \in Handles :
    /\ IsLive(h)
    /\ adapter[h].handlers
    /\ Len(heap[h].collectedData) = 2
    /\ heap[h].collectedData[1] # heap[h].collectedData[2]
    /\ heap[h].stats.dataPointsCollected = 1

\* C4: on a live session stats.agentHandoffs is the number of
\* recordAgentHandoff calls made on it, repeated ones included, and
\* currentAgent is the `to` of the latest call (the initial agent if none).
C4_HandoffsCounted ==
  \A h \in Handles :
    IsLive(h) =>
      /\ heap[h].stats.agentHandoffs = Len(handoffs[h])
      /\ heap[h].currentAgent =
           IF handoffs[h] = <<>> THEN InitialAgent
           ELSE handoffs[h][Len(handoffs[h])]

C4_Witness ==
  \E h \in Handles :
    /\ IsLive(h)
    /\ Len(handoffs[h]) = 2
    /\ handoffs[h][1] = handoffs[h][2]
    /\ heap[h].stats.agentHandoffs = 2

\* C5: in every step that changes a session's currentAgent,
\* stats.agentHandoffs of that session goes up by exactly one.
C5_ChangeStep ==
  \A h \in Handles :
    heap'[h].currentAgent # heap[h].currentAgent =>
      heap'[h].stats.agentHandoffs = heap[h].stats.agentHandoffs + 1

C5_AgentChangeCounted == [][C5_ChangeStep]_vars

\* C6: createSession with an id that is active fails with
\* DuplicateSessionError and leaves the active set, the history and every
\* session unchanged.
\* The outcome of a createSession call that throws DuplicateSessionError
\* instead of returning a session.
DuplicateSessionError == Undefined - 1

C6_DuplicateStep ==
  (lastCall'.op = "createSession" /\ MapHas(activeSessions, lastCall'.id)) =>
    /\ lastCall'.ret = DuplicateSessionError
    /\ UNCHANGED <<activeSessions, sessionHistory, heap>>

C6_DuplicateRejected == [][C6_DuplicateStep]_vars

\* C7: endSession(id) for an id that is not active (it was ended and not
\* created again) returns not-found and changes neither the active set nor
\* the history nor any session.
C7_SecondEndStep ==
  (lastCall'.op = "endSession" /\ ~MapHas(activeSessions, lastCall'.id)) =>
    /\ lastCall'.ret = Undefined
    /\ UNCHANGED <<activeSessions, sessionHistory, heap>>

C7_EndIdempotent == [][C7_SecondEndStep]_vars

C7_Witness ==
  /\ lastCall.op = "endSession"
  /\ lastCall.ret = Undefined
  /\ \E h \in Range(sessionHistory) :
       heap[h].sessionId = lastCall.id /\ heap[h].endTime < now

\* C8: active sessions have no endTime, sessions in the history have one, an
\* endTime is written only by endSession or cleanupExpiredSessions, and once
\* written it never changes.
C8_EndTimeStep ==
  \A h \in Handles :
    /\ HasEnded(h) => heap'[h].endTime = heap[h].endTime
    /\ heap'[h].endTime # heap[h].endTime =>
         lastCall'.op \in {"endSession", "cleanupExpiredSessions"}

C8_EndTimeOnce ==
  /\ [](\A h \in Handles : IsLive(h) => heap[h].endTime = Undefined)
  /\ [](\A h \in Range(sessionHistory) : heap[h].endTime # Undefined)
  /\ [][C8_EndTimeStep]_vars

C8_Witness ==
  /\ \E h \in Range(sessionHistory) : HasEnded(h) /\ heap[h].endTime < now
  /\ \E h \in Handles : IsLive(h)
  /\ lastCall.op = "createSession"

\* C9: the history never holds more than 100 entries and is always the most
\* recently ended sessions in end order, so that an end on a full history
\* evicts exactly the oldest entry.
C9_HistoryBounded ==
  /\ Len(sessionHistory) <= HistoryLimit
  /\ Len(sessionHistory) = IF Len(ended) < HistoryLimit THEN Len(ended) ELSE HistoryLimit
  /\ \A i \in 1..Len(sessionHistory) :
       sessionHistory[i] = ended[Len(ended) - Len(sessionHistory) + i]

C9_Witness ==
  /\ lastCall.op = "endSession"
  /\ lastCall.ret # Undefined
  /\ Len(ended) > HistoryLimit + 1
  /\ Len(sessionHistory) = HistoryLimit

\* C10: cleanupExpiredSessions(maxAge) ends exactly the active sessions whose
\* startTime is older than maxAge: those leave the active set and are in the
\* history with endTime set, the others stay active and unchanged, no active
\* session older than maxAge remains, and the count returned is the number
\* of sessions ended.
Older(h, maxAgeHours) == heap[h].startTime < now - maxAgeHours * HourMs

C10_SweepStep ==
  lastCall'.op = "cleanupExpiredSessions" =>
    /\ \A h \in Handles :
         /\ (IsLive(h) /\ Older(h, lastCall'.arg)) =>
              /\ ~IsLive(h)'
              /\ h \in Range(sessionHistory')
              /\ heap'[h].endTime # Undefined
         /\ (IsLive(h) /\ ~Older(h, lastCall'.arg)) =>
              /\ IsLive(h)'
              /\ heap'[h] = heap[h]
         /\ IsLive(h)' => IsLive(h)
    /\ lastCall'.ret = Cardinality({h \in Handles : IsLive(h) /\ Older(h, lastCall'.arg)})

C10_SweepExact == [][C10_SweepStep]_vars

\* C10 as amended: a session the sweep ended is in the history unless the
\* same sweep ended at least 100 sessions after it, which evicts it.
EndedAfter(h, maxAgeHours) ==
  LET values == MapValues(activeSessions)
      at == CHOOSE i \in 1..Len(values) : values[i] = h
  IN Cardinality({j \in (at + 1)..Len(values) : Older(values[j], maxAgeHours)})

C10_SweepStepAmended ==
  lastCall'.op = "cleanupExpiredSessions" =>
    /\ \A h \in Handles :
         /\ (IsLive(h) /\ Older(h, lastCall'.arg)) =>
              /\ ~IsLive(h)'
              /\ h \in Range(sessionHistory') <=>
                   EndedAfter(h, lastCall'.arg) < HistoryLimit
              /\ heap'[h].endTime # Undefined
         /\ (IsLive(h) /\ ~Older(h, lastCall'.arg)) =>
              /\ IsLive(h)'
              /\ heap'[h] = heap[h]
         /\ IsLive(h)' => IsLive(h)
    /\ lastCall'.ret = Cardinality({h \in Handles : IsLive(h) /\ Older(h, lastCall'.arg)})

C10_SweepExactAmended == [][C10_SweepStepAmended]_vars

C10_Witness ==
  /\ lastCall.op = "cleanupExpiredSessions"
  /\ lastCall.ret > HistoryLimit
  /\ Len(sessionHistory) = HistoryLimit
  /\ \E h \in Handles : IsLive(h) /\ heap[h].startTime < now

\* C11: addDataPoint, recordAgentHandoff and updateSessionStats called with an
\* id that is not active (never created, or already ended) return without an
\* error and change neither the active set nor the history nor any session,
\* the ended session of that id included.
LookupMethods == {"addDataPoint", "recordAgentHandoff", "updateSessionStats"}

C11_UnknownStep ==
  lastCall'.op \in LookupMethods =>
    /\ ~MapHas(activeSessions, lastCall'.id)
    /\ lastCall'.ret = Undefined
    /\ UNCHANGED <<activeSessions, sessionHistory, heap>>

C11_UnknownIdNoOp ==
  /\ [][C11_UnknownStep]_vars
  /\ [](\A id \in Ids : \A d \in DataPoints : \A f, t \in Agents : \A u \in StatUpdates :
         ~MapHas(activeSessions, id) =>
           /\ addDataPoint(Registry, id, d) = Registry
           /\ recordAgentHandoff(Registry, id, f, t) = Registry
           /\ updateSessionStats(Registry, id, u) = Registry)

C11_Witness ==
  /\ lastCall.op \in LookupMethods
  /\ \E h \in Range(sessionHistory) :
       /\ heap[h].sessionId = lastCall.id
       /\ heap[h].stats.dataPointsCollected > 0
  /\ \E h \in Handles : IsLive(h) /\ heap[h].stats.dataPointsCollected > 0

\* C12: the retry counter never exceeds maxReconnectAttempts, the connector
\* makes at most maxReconnectAttempts connect attempts between one
\* successful open and the next, and once a close found the budget spent no
\* timer is pending and the connector itself creates no further transport.
\* A close has found the budget spent, and no transport has opened since.
Exhausted ==
  /\ connHist.exhausted > 0
  /\ conn.reconnectAttempts >= maxReconnectAttempts

C12_NoAttemptStep ==
  Exhausted => /\ Len(sockets') = Len(sockets)
               /\ lastCall'.op # "timer"

C12_AttemptsBounded ==
  /\ [](conn.reconnectAttempts <= maxReconnectAttempts)
  /\ [](connHist.sinceOpen <= maxReconnectAttempts)
  /\ [](connHist.sinceOpen + Len(timers) = conn.reconnectAttempts)
  /\ [](Exhausted => /\ timers = <<>>
                      /\ \A k \in Sockets : sockets[k].readyState = "CLOSED")
  /\ [][C12_NoAttemptStep]_vars

C12_Witness ==
  /\ Exhausted
  /\ connHist.exhausted = 1
  /\ connHist.sinceOpen = maxReconnectAttempts
  /\ \E k \in Sockets : sockets[k].sent # <<>>

\* C13: a close that finds the reconnect budget spent leaves the connector
\* disconnected and emits the terminal failure event exactly once, and the
\* event is emitted by no other step.
\* The terminal failure event of the connector.
TerminalFailure == Event("reconnect_failed", "none")

C13_ExhaustStep ==
  IF connHist'.exhausted > connHist.exhausted
  THEN /\ ~conn'.isConnected
       /\ Occurrences(emitted', TerminalFailure) = 1
  ELSE emitted' # emitted => Occurrences(emitted', TerminalFailure) = 0

C13_TerminalEventOnce == [][C13_ExhaustStep]_vars

\* C14: disconnect() leaves no reconnect timer pending, and from then on,
\* until the owner calls connect() again, no timer is scheduled, no new
\* transport is created and nothing (no greeting) is written to a transport.
C14_DisconnectStep ==
  connHist'.disconnected =>
    /\ timers' = <<>>
    /\ connHist.disconnected =>
         /\ Len(sockets') = Len(sockets)
         /\ \A k \in Sockets : sockets'[k].sent = sockets[k].sent

C14_DisconnectStops ==
  /\ [](connHist.disconnected => ~conn.isConnected)
  /\ [][C14_DisconnectStep]_vars

\* C15: sendAudio and sendText called while the connector is not connected
\* fail with NotConnectedError instead of completing normally.
\* The outcome of a send call that is rejected with NotConnectedError.
NotConnectedError == Undefined - 2

C15_SendStep ==
  (lastCall'.op \in {"sendAudio", "sendText"} /\ ~Connected) =>
    lastCall'.ret = NotConnectedError

C15_SendRejected == [][C15_SendStep]_vars

\* C16: nothing is written to a transport while the connector is not
\* connected and nothing is queued: a step writes to a transport only if
\* the connector is connected after it and the transport is open, what it
\* writes is the greeting of that open or the payload of that very call,
\* and a payload passed while not connected is on no transport, ever.
Written(k) == IF k \in Sockets THEN Len(sockets[k].sent) ELSE 0

C16_WriteStep ==
  \A k \in 1..Len(sockets') :
    Len(sockets'[k].sent) # Written(k) =>
      /\ Len(sockets'[k].sent) = Written(k) + 1
      /\ conn'.isConnected /\ conn'.ws = k
      /\ sockets'[k].readyState = "OPEN"
      /\ LET e == sockets'[k].sent[Written(k) + 1] IN
           IF e.type = "greeting" THEN lastCall'.op = "open"
           ELSE /\ lastCall'.op = IF e.type = "audio" THEN "sendAudio" ELSE "sendText"
                /\ lastCall'.arg = e.payload
                /\ Connected

C16_NothingSentUnconnected ==
  /\ [][C16_WriteStep]_vars
  /\ [](\A k \in Sockets : \A i \in 1..Len(sockets[k].sent) :
          sockets[k].sent[i].payload \notin connHist.dropped)
  /\ [](Connected => sockets[conn.ws].readyState = "OPEN")

C16_Witness ==
  /\ connHist.dropped = {1}
  /\ connHist.disconnected
  /\ \E k \in Sockets : /\ k > 1
                         /\ Len(sockets[k].sent) = 2
                         /\ sockets[k].sent[2] = Envelope("audio", 2)
  /\ sockets[1].sent = <<Envelope("greeting", 0)>>

\* C17: the open of a transport, the first or a later one, leaves the
\* connector connected on that transport with the retry counter at 0 and the
\* greeting written to it; on every transport the greeting is the first
\* envelope and occurs once, so audio and text come after it.
Greetings(k) ==
  Cardinality({i \in 1..Len(sockets[k].sent) : sockets[k].sent[i].type = "greeting"})

C17_OpenStep ==
  lastCall'.op = "open" =>
    /\ conn'.isConnected
    /\ conn'.ws = lastCall'.id
    /\ conn'.reconnectAttempts = 0
    /\ sockets[lastCall'.id].sent = <<>>
    /\ sockets'[lastCall'.id].sent = <<Envelope("greeting", 0)>>

C17_GreetingOnOpen ==
  /\ [][C17_OpenStep]_vars
  /\ [](\A k \in Sockets :
          /\ sockets[k].readyState = "OPEN" => sockets[k].sent # <<>>
          /\ sockets[k].sent # <<>> =>
               sockets[k].sent[1].type = "greeting" /\ Greetings(k) = 1)

C17_Witness ==
  /\ Len(sockets) = 3
  /\ sockets[1].sent = <<Envelope("greeting", 0), Envelope("text", 1)>>
  /\ sockets[2].sent = <<>> /\ sockets[2].readyState = "CLOSED"
  /\ sockets[3].sent = <<Envelope("greeting", 0), Envelope("audio", 2)>>
  /\ conn.reconnectAttempts = 0

LastFrame == connHist'.frames[Len(connHist'.frames)]

MessageTypes == {"audio", "text", "handoff", "data_collection", "session_end"}

EventOf(data) == Event(data.type, data.payload)

\* C18: a frame that does not parse changes nothing: the connector stays as
\* it was (connected, same transport, same retry counter, no timer), no
\* event is emitted and no listener runs; and a valid frame that arrives
\* after one that did not parse is dispatched as ever.
C18_BadFrameStep ==
  lastCall'.op = "message" =>
    /\ ~LastFrame.json =>
         /\ UNCHANGED <<conn, sockets, timers, heap, adapter, received>>
         /\ emitted' = <<>>
         /\ connHist'.applied = connHist.applied
    /\ (/\ \E i \in 1..Len(connHist.frames) : ~connHist.frames[i].json
        /\ LastFrame.json /\ LastFrame.type \in MessageTypes) =>
         emitted' = <<EventOf(LastFrame)>>

C18_BadFrameIgnored == [][C18_BadFrameStep]_vars

C18_Witness ==
  /\ connHist.frames = <<Frame(TRUE, "data_collection", "full_name"),
                         Frame(FALSE, "none", "none"),
                         Frame(TRUE, "data_collection", "car_model")>>
  /\ Owner \in Handles
  /\ heap[Owner].collectedData = <<"full_name", "car_model">>
  /\ Connected
  /\ sockets[conn.ws].readyState = "OPEN"
  /\ conn.reconnectAttempts = 0

\* C19: a frame of type audio, text, handoff, data_collection or session_end
\* makes the connector emit exactly one event, of that type, which reaches
\* the listener registered for it; a frame of any other type emits nothing,
\* runs no listener and leaves connector, adapter and session unchanged.
C19_DispatchStep ==
  lastCall'.op = "message" =>
    IF LastFrame.json /\ LastFrame.type \in MessageTypes
    THEN /\ emitted' = <<EventOf(LastFrame)>>
         /\ connHist'.applied =
              IF /\ Owner \in Handles
                 /\ adapter[Owner].handlers
                 /\ LastFrame.type \in Listened
              THEN Append(connHist.applied, EventOf(LastFrame))
              ELSE connHist.applied
    ELSE /\ emitted' = <<>>
         /\ connHist'.applied = connHist.applied
         /\ UNCHANGED <<conn, sockets, timers, heap, adapter, received>>

C19_DispatchByType == [][C19_DispatchStep]_vars

C19_Witness ==
  /\ connHist.frames = <<Frame(TRUE, "status", "none"),
                         Frame(TRUE, "handoff", "carDealer"),
                         Frame(TRUE, "text", "hello")>>
  /\ connHist.applied = <<Event("handoff", "carDealer")>>
  /\ emitted = <<Event("text", "hello")>>
  /\ Owner \in Handles
  /\ heap[Owner].currentAgent = "carDealer"

\* C20: the listeners run in the order the frames were received, whatever
\* their types: the events applied are a final stretch of the frames
\* received, in receipt order (the frames before the listeners were
\* registered are missing), collectedData holds the data points among them
\* in that order, currentAgent is the target of the latest handoff among
\* them, and the adapter has disconnected if a session_end is among them.
IsSuffix(a, b) ==
  Len(a) <= Len(b) /\ a = SubSeq(b, Len(b) - Len(a) + 1, Len(b))

\* The events the listeners of the adapter would get from these frames.
Audible(frames) ==
  LET heard == SelectSeq(frames, LAMBDA d : d.json /\ d.type \in Listened)
  IN [i \in 1..Len(heard) |-> EventOf(heard[i])]

Payloads(events, name) ==
  LET chosen == SelectSeq(events, LAMBDA e : e.event = name)
  IN [i \in 1..Len(chosen) |-> chosen[i].payload]

C20_ReceiptOrder ==
  /\ IsSuffix(connHist.applied, Audible(connHist.frames))
  /\ Owner \in Handles =>
       LET to == Payloads(connHist.applied, "handoff") IN
       /\ heap[Owner].collectedData = Payloads(connHist.applied, "data_collection")
       /\ heap[Owner].currentAgent = IF to = <<>> THEN InitialAgent ELSE to[Len(to)]
       /\ adapter[Owner].handlers =>
            (adapter[Owner].isConnected <=>
               Payloads(connHist.applied, "session_end") = <<>>)

C20_Witness ==
  /\ connHist.applied = <<Event("data_collection", "car_model"),
                          Event("handoff", "spotlight"),
                          Event("data_collection", "full_name")>>
  /\ Owner \in Handles
  /\ heap[Owner].collectedData = <<"car_model", "full_name">>
  /\ heap[Owner].currentAgent = "spotlight"

\* C21: when the connector reports session_end for an active call, the step
\* that handles it ends the session through the registry (it leaves the
\* active set and is in the history with its endTime), the connector is
\* disconnected and the adapter is closed.
\* A step in which the adapter's session_end listener ran.
SessionEndHeard ==
  /\ lastCall'.op = "message"
  /\ Len(connHist'.applied) > Len(connHist.applied)
  /\ connHist'.applied[Len(connHist'.applied)].event = "session_end"

C21_SessionEndStep ==
  (SessionEndHeard /\ Owner \in Handles /\ IsLive(Owner)) =>
    /\ ~IsLive(Owner)'
    /\ Owner \in Range(sessionHistory')
    /\ heap'[Owner].endTime # Undefined
    /\ ~conn'.isConnected
    /\ ~adapter'[Owner].isConnected

C21_SessionEndEnds == [][C21_SessionEndStep]_vars

\* C22: once the connector of an active call has spent its reconnect
\* attempts, the session is eventually ended: no session stays active for
\* ever on a connector that gave up.
C22_ExhaustionFatal ==
  (Exhausted /\ Owner \in Handles /\ IsLive(Owner)) ~>
    (Owner \in Handles /\ ~IsLive(Owner))

\* C24: for every endSession(id, reason) call that ends a session, the
\* entry of that session in the history carries exactly that reason.
\* The reason a session object carries: BridgeSession has no field for one.
ReasonOf(session) ==
  IF "reason" \in DOMAIN session THEN session.reason ELSE "none"

\* The reason cleanupExpiredSessions passes to endSession (line 227).
ExpiredReason == "Expired - cleanup"

C24_ReasonStep ==
  lastCall'.op = "cleanupExpiredSessions" =>
    \A h \in Handles :
      (IsLive(h) /\ ~IsLive(h)') =>
        /\ h \in Range(sessionHistory')
        /\ ReasonOf(heap'[h]) = ExpiredReason

C24_ReasonRecorded == [][C24_ReasonStep]_vars

\* C23: when the setup of a call fails after its session was created (the
\* connector cannot connect), the session is ended with the reason
\* "setup failed": it leaves the active set and is in the history, and the
\* adapter is closed without ever having been active.
SetupFailedReason == "setup failed"

\* The outcome the claim requires of a step in which the setup failed.
SetupEnded ==
  /\ ~IsLive(Owner)'
  /\ Owner \in Range(sessionHistory')
  /\ heap'[Owner].endTime # Undefined
  /\ ReasonOf(heap'[Owner]) = SetupFailedReason
  /\ ~adapter'[Owner].handlers
  /\ ~adapter'[Owner].isConnected

\* connect() rejected and the catch of the entry ran.
C23_RejectedStep ==
  (lastCall'.op = "setupFailed" /\ IsLive(Owner)) => SetupEnded

\* The first transport failed, by an error or by closing, before it opened.
C23_RefusedStep ==
  (/\ lastCall'.op \in {"error", "close"}
   /\ lastCall'.id = 1
   /\ sockets[1].readyState = "CONNECTING"
   /\ Owner \in Handles
   /\ IsLive(Owner)) => SetupEnded

C23_SetupFailureEnds ==
  /\ [][C23_RejectedStep]_vars
  /\ [][C23_RefusedStep]_vars

\* C25: a chunk of call-leg audio that reaches the started adapter while the
\* connector is not connected is dropped, written to no transport and kept
\* in no queue, and stats.errors of the session goes up by one for it.
C25_DropStep ==
  (/\ lastCall'.op = "adapterSendAudio"
   /\ Owner \in Handles
   /\ adapter[Owner].handlers
   /\ ~Connected) =>
    /\ sockets' = sockets
    /\ timers' = timers
    /\ heap'[Owner].stats.errors = heap[Owner].stats.errors + 1

C25_DropCounted == [][C25_DropStep]_vars

\* C26: no error of the transport escapes a handler of the connector as an
\* exception nobody catches: no execution reaches a state in which one was
\* thrown, whether or not a listener for 'error' is registered.
C26_NoUncaughtException == connHist.uncaught = 0

\* C27: once a session has ended, no later event of its connector changes
\* it: collectedData, currentAgent and stats of the history entry stay as
\* they were when it ended.
C27_EndedStep ==
  lastCall'.op = "message" =>
    \A h \in Handles :
      HasEnded(h) =>
        /\ heap'[h].collectedData = heap[h].collectedData
        /\ heap'[h].currentAgent = heap[h].currentAgent
        /\ heap'[h].stats = heap[h].stats

C27_EndedUntouched == [][C27_EndedStep]_vars

\* C28: once the session of a call has ended, by whatever path, its
\* connector makes no further connect attempt: no reconnect timer fires and
\* no new transport is created.
C28_EndedStep ==
  (Owner \in Handles /\ HasEnded(Owner)) =>
    /\ lastCall'.op # "timer"
    /\ Len(sockets') = Len(sockets)

C28_NoConnectAfterEnd == [][C28_EndedStep]_vars

\* C29: every counter of a session's stats is monotonically non-decreasing:
\* no step, an updateSessionStats call with any updates included, lowers one.
Counters == {"audioChunksProcessed", "messagesExchanged", "agentHandoffs",
             "dataPointsCollected", "errors"}

C29_CounterStep ==
  \A h \in Handles : \A f \in Counters :
    heap'[h].stats[f] >= heap[h].stats[f]

C29_CountersMonotone == [][C29_CounterStep]_vars

\* C30: the round trip of the AudioPipeline is the identity on a buffer of
\* canonical audio: converting it for the backend and converting the result
\* back for the call leg returns a buffer with the same bytes.
RoundTripped ==
  /\ audio.input.kind = "buffer"
  /\ audio.si2 # NoAudio
  /\ audio.livekit # NoAudio

C30_RoundTripIdentity == RoundTripped => audio.livekit = audio.input

C30_Witness ==
  /\ RoundTripped
  /\ Len(audio.input.data) = MaxLen
  /\ audio.input.data[1] # audio.input.data[2]
  /\ audio.livekit.kind = "buffer"
  /\ audio.livekit.data = audio.input.data

\* C31: neither conversion throws on empty input: for an empty Buffer, an
\* empty string and an object whose data is empty, what the conversion
\* returns is an empty Buffer.
C31_EmptyInEmptyOut ==
  audio.input.data = <<>> =>
    /\ audio.si2 # NoAudio => audio.si2 = Buffer(<<>>)
    /\ audio.livekit # NoAudio => audio.livekit = Buffer(<<>>)

\* C32: connect() always terminates: the promise the caller awaits is
\* settled, resolved by the open of the transport or rejected, at the latest
\* when the connect timeout has passed; it is never pending for ever.
\* The run has used up the transports the model allows: what follows such a
\* state is outside the model.
SocketsSpent == Len(sockets) >= MaxSockets

C32_ConnectTerminates ==
  (connHist.promise = "pending") ~>
    (connHist.promise \in {"resolved", "rejected"} \/ SocketsSpent)

\* C33: the close of the transport of a connected connector puts the
\* connector into reconnecting (not connected, a connect scheduled), and a
\* reconnecting connector whose transports each open or close eventually is
\* connected again or has spent its attempts: it never stays reconnecting.
Reconnecting ==
  /\ ~conn.isConnected
  /\ conn.reconnectAttempts > 0
  /\ ~Exhausted

C33_CloseStep ==
  (lastCall'.op = "close" /\ Connected /\ lastCall'.id = conn.ws) =>
    /\ Reconnecting'
    /\ Len(timers') = Len(timers) + 1

C33_ReconnectingEnds ==
  /\ [][C33_CloseStep]_vars
  /\ Reconnecting ~> (Connected \/ Exhausted \/ SocketsSpent)

C33_Witness ==
  /\ Exhausted
  /\ Len(sockets) = maxReconnectAttempts + 1
  /\ sockets[1].sent # <<>>
  /\ ~SocketsSpent

\* C34: the backoff is linear: the delay of the timer scheduled for the k-th
\* consecutive reconnect attempt (the k-th since the last open, k = 1..5) is
\* k * reconnectDelay, so consecutive delays differ by reconnectDelay.
C34_ScheduleStep ==
  Len(timers') > Len(timers) =>
    /\ connHist.sinceOpen + 1 \in 1..maxReconnectAttempts
    /\ timers'[Len(timers')] = (connHist.sinceOpen + 1) * reconnectDelay

C34_FireStep ==
  lastCall'.op = "timer" => lastCall'.arg = connHist'.sinceOpen * reconnectDelay

C34_LinearBackoff ==
  /\ [][C34_ScheduleStep]_vars
  /\ [][C34_FireStep]_vars

C34_Witness ==
  /\ lastCall.op = "timer"
  /\ lastCall.arg = maxReconnectAttempts * reconnectDelay
  /\ connHist.sinceOpen = maxReconnectAttempts

\* C35: the expiry sweep is safe in every interleaving with createSession,
\* addDataPoint, recordAgentHandoff and endSession: a session that ends enters
\* the history exactly once, no session is both active and in the history,
\* the sweep ends no session that has not expired, and the count it returns
\* is the number of sessions it ended.
C35_EndStep ==
  \A h \in Handles :
    (~HasEnded(h) /\ heap'[h].endTime # Undefined) =>
      /\ Occurrences(sessionHistory, h) = 0
      /\ Occurrences(sessionHistory', h) = 1

C35_SweepStep ==
  lastCall'.op = "cleanupExpiredSessions" =>
    /\ \A h \in Handles :
         (IsLive(h) /\ ~Older(h, lastCall'.arg)) =>
           /\ IsLive(h)'
           /\ heap'[h] = heap[h]
    /\ lastCall'.ret = Cardinality({h \in Handles : IsLive(h) /\ ~IsLive(h)'})

C35_SweepSafe ==
  /\ [](\A h \in Handles :
          /\ Occurrences(sessionHistory, h) <= 1
          /\ ~(IsLive(h) /\ h \in Range(sessionHistory)))
  /\ [][C35_EndStep]_vars
  /\ [][C35_SweepStep]_vars

C35_Witness ==
  /\ lastCall.op = "cleanupExpiredSessions"
  /\ lastCall.ret = 1
  /\ \E h \in Range(sessionHistory) :
       /\ heap[h].endTime = now
       /\ heap[h].collectedData # <<>>
  /\ \E h \in Handles :
       /\ IsLive(h)
       /\ heap[h].startTime > 0
       /\ heap[h].stats.agentHandoffs > 0

\* C36: getGlobalStats aggregates over the history: activeSessions is the
\* size of the active set, totalSessions the number of history entries, the
\* two totals are the sums of dataPointsCollected and of agentHandoffs over
\* the sessions in the history, and averageSessionDuration is the mean of
\* endTime - startTime over them, which it gives in seconds (0 when the
\* history is empty).
RECURSIVE SumOver(_, _)
SumOver(S, f) ==
  IF S = {} THEN 0
  ELSE LET x == CHOOSE x \in S : TRUE IN f[x] + SumOver(S \ {x}, f)

InHistory == {h \in Handles : h \in Range(sessionHistory)}

C36_GlobalStats ==
  lastCall.op = "getGlobalStats" =>
    LET stats == lastCall.ret
        average == stats.averageSessionDuration
        durations == [h \in Handles |-> heap[h].endTime - heap[h].startTime]
    IN /\ stats.activeSessions = Cardinality({h \in Handles : IsLive(h)})
       /\ stats.totalSessions = Cardinality(InHistory)
       /\ stats.totalDataPointsCollected =
            SumOver(InHistory, [h \in Handles |-> heap[h].stats.dataPointsCollected])
       /\ stats.totalAgentHandoffs =
            SumOver(InHistory, [h \in Handles |-> heap[h].stats.agentHandoffs])
       /\ IF InHistory = {} THEN average.num = 0
          ELSE /\ average.den % 1000 = 0
               /\ average.num * Cardinality(InHistory) =
                    SumOver(InHistory, durations) * (average.den \div 1000)

C36_Witness ==
  /\ lastCall.op = "getGlobalStats"
  /\ lastCall.ret.totalSessions = 2
  /\ lastCall.ret.totalDataPointsCollected > 0
  /\ lastCall.ret.totalAgentHandoffs > 0
  /\ lastCall.ret.averageSessionDuration.num > 0
  /\ \E h \in Range(sessionHistory), g \in Range(sessionHistory) :
       heap[h].endTime - heap[h].startTime # heap[g].endTime - heap[g].startTime

\* C37: no session is lost by the registry: a session that is in the active
\* set leaves it only in an endSession or cleanupExpiredSessions call, and in
\* the step in which it leaves it is put into the history; createSession, with
\* any id, neither removes nor replaces an active session.
C37_LeaveStep ==
  \A h \in Handles :
    (IsLive(h) /\ ~IsLive(h)') =>
      /\ lastCall'.op \in {"endSession", "cleanupExpiredSessions"}
      /\ h \in Range(sessionHistory')

C37_NoSessionLost == [][C37_LeaveStep]_vars

\* C39: calls are isolated in the registry: addDataPoint, recordAgentHandoff,
\* updateSessionStats and endSession applied to a session id leave every other
\* session, active or in the history, unchanged in collectedData,
\* currentAgent, stats and endTime, and leave its membership of the active set
\* unchanged.
Untouched(h) ==
  /\ heap'[h].collectedData = heap[h].collectedData
  /\ heap'[h].currentAgent = heap[h].currentAgent
  /\ heap'[h].stats = heap[h].stats
  /\ heap'[h].endTime = heap[h].endTime
  /\ IsLive(h)' <=> IsLive(h)

C39_CallStep ==
  \A id \in Ids :
    (\/ AddDataPoint(id, "full_name")
     \/ RecordAgentHandoff(id, InitialAgent, "spotlight")
     \/ \E u \in StatUpdates : UpdateSessionStats(id, u)
     \/ EndSession(id)) =>
      \A h \in Handles : h # LiveSession(id) => Untouched(h)

C39_CallsIsolated == [][C39_CallStep]_vars

\* A session created first is still active and as it was created, after a
\* session created later has collected data, changed agent and ended.
C39_Witness ==
  \E h \in Handles, g \in Handles :
    /\ heap[h].sessionId # heap[g].sessionId
    /\ h \in Range(sessionHistory)
    /\ heap[h].collectedData # <<>>
    /\ heap[h].stats.agentHandoffs > 0
    /\ IsLive(g)
    /\ g < h
    /\ heap[g].collectedData = <<>>
    /\ heap[g].currentAgent = InitialAgent
    /\ heap[g].stats = NewStats

\* C38: a connector has at most one live transport and at most one pending
\* reconnect timer at any time, its isConnected flag is true exactly when its
\* current transport is open, and an event of a transport that connect() has
\* replaced neither changes the flag nor leads to another transport.
LiveSockets == {k \in Sockets : sockets[k].readyState \in {"CONNECTING", "OPEN"}}

C38_LateStep ==
  (/\ lastCall'.op \in {"open", "close"}
   /\ conn.ws # Undefined
   /\ lastCall'.id # conn.ws) =>
    UNCHANGED <<conn, timers>>

C38_OneTransport ==
  /\ [](Cardinality(LiveSockets) <= 1)
  /\ [](Len(timers) <= 1)
  /\ [](conn.isConnected <=>
          (conn.ws # Undefined /\ sockets[conn.ws].readyState = "OPEN"))
  /\ [][C38_LateStep]_vars

\* C40: the stream of receiveAudio delivers every audio event of the backend
\* that arrives while the connector is connected exactly once and in the order
\* of arrival, the events that arrive while the consumer still has the
\* previous chunk included, and the iteration ends once the connector is
\* disconnected: the generator is never left waiting for one more audio
\* event, neither with an event undelivered nor with the connector
\* disconnected.
Wanted ==
  SelectSeq([i \in 1..Len(stream.arrived) |-> i],
            LAMBDA i : stream.arrived[i].connected /\ stream.arrived[i].data # "")

C40_StreamComplete ==
  /\ \A i \in 1..Len(stream.delivered) :
       i <= Len(Wanted) /\ stream.delivered[i] = Wanted[i]
  /\ stream.pos = "awaiting" => stream.delivered = Wanted
  /\ stream.pos = "awaiting" => conn.isConnected

====
